---- MODULE Spec2Model ----
(***************************************************************************)
(* Model of the price discovery engine of ocrpricer:                       *)
(* RealTimeScraper.fetch_price_data (src/scrapper.py) with the source      *)
(* fetchers, the price extractor, the product-type filter and the trimmed  *)
(* mean; of the reference model of src/region_model.py; of the API         *)
(* handlers of src/api.py; and of the worker threads that share the        *)
(* geocoding client of src/geocoding.py.                                   *)
(*                                                                         *)
(* Prices are integers in cents (1.99 is 199).  Strings are sequences of   *)
(* one-character strings so that Python's substring test `x in s` and     *)
(* str.lower() are computed, not assumed.                                  *)
(***************************************************************************)
EXTENDS Integers, Sequences, FiniteSets, TLC

(***************************************************************************)
(* Strings                                                                 *)
(***************************************************************************)
UpperCase == <<"A","B","C","D","E","F","G","H","I","J","K","L","M",
               "N","O","P","Q","R","S","T","U","V","W","X","Y","Z">>

LowerCase == <<"a","b","c","d","e","f","g","h","i","j","k","l","m",
               "n","o","p","q","r","s","t","u","v","w","x","y","z">>

\* str.lower() on one character
LowerChar(c) ==
    IF \E i \in 1..Len(UpperCase) : UpperCase[i] = c
    THEN LowerCase[CHOOSE i \in 1..Len(UpperCase) : UpperCase[i] = c]
    ELSE c

\* str.lower()
Lower(s) == [i \in 1..Len(s) |-> LowerChar(s[i])]

\* Python's `sub in s` on strings: sub occurs as a contiguous substring
Contains(s, sub) ==
    \E i \in 0..(Len(s) - Len(sub)) : SubSeq(s, i + 1, i + Len(sub)) = sub

\* any(x in s for x in keys)
ContainsAny(s, keys) == \E k \in keys : Contains(s, k)

\* s[:n]
Take(s, n) == SubSeq(s, 1, IF Len(s) < n THEN Len(s) ELSE n)

kw_coke      == <<"c","o","k","e">>
kw_coca_cola == <<"c","o","c","a"," ","c","o","l","a">>
kw_cola      == <<"c","o","l","a">>
kw_soda      == <<"s","o","d","a">>
kw_drink     == <<"d","r","i","n","k">>
kw_beverage  == <<"b","e","v","e","r","a","g","e">>
kw_pack      == <<"p","a","c","k">>
kw_case      == <<"c","a","s","e">>
kw_12        == <<"1","2">>
kw_24        == <<"2","4">>
kw_family    == <<"f","a","m","i","l","y">>
kw_bulk      == <<"b","u","l","k">>
kw_chip      == <<"c","h","i","p">>
kw_large     == <<"l","a","r","g","e">>
kw_chocolate == <<"c","h","o","c","o","l","a","t","e">>
kw_multi     == <<"m","u","l","t","i">>
kw_pop       == <<"p","o","p">>
kw_bag       == <<"b","a","g">>
kw_bar       == <<"b","a","r">>

t_coca_cola_20oz    == <<"c","o","c","a"," ","c","o","l","a"," ","2","0"," ","o","z">>
t_coca_cola_can     == <<"c","o","c","a"," ","c","o","l","a"," ","c","a","n">>
t_coca_cola_bottle  == <<"c","o","c","a"," ","c","o","l","a"," ","b","o","t","t","l","e">>
t_coca_cola_2liter  == <<"c","o","c","a"," ","c","o","l","a"," ","2"," ","l","i","t","e","r">>
t_soda_2liter       == <<"s","o","d","a"," ","2"," ","l","i","t","e","r">>
t_potato_chips      == <<"p","o","t","a","t","o"," ","c","h","i","p","s">>
t_chocolate_bar     == <<"c","h","o","c","o","l","a","t","e"," ","b","a","r">>
suffix_bag          == <<" ","b","a","g">>
suffix_bar          == <<" ","b","a","r">>

(***************************************************************************)
(* Search term expansion (fetch_price_data, the search_terms list)         *)
(***************************************************************************)
\* the variations appended for drinks
DrinkVariations(item_lower) ==
    IF ContainsAny(item_lower, {kw_coke, kw_coca_cola, kw_cola})
       /\ ~Contains(item_lower, kw_coca_cola)
    THEN (IF ~ContainsAny(item_lower, {kw_pack, kw_case, kw_12, kw_24})
          THEN <<t_coca_cola_20oz, t_coca_cola_can, t_coca_cola_bottle>>
          ELSE <<>>)
         \o <<kw_coca_cola, t_coca_cola_2liter>>
    ELSE IF Contains(item_lower, kw_coca_cola)
    THEN <<t_coca_cola_2liter, t_coca_cola_20oz, t_coca_cola_can, kw_coke>>
    ELSE IF Contains(item_lower, kw_soda) \/ Contains(item_lower, kw_pop)
    THEN <<t_soda_2liter>>
    ELSE <<>>

\* the variations appended for chips
ChipVariations(item_name, item_lower) ==
    IF Contains(item_lower, kw_chip)
    THEN (IF ~Contains(item_lower, kw_bag) /\ ~Contains(item_lower, kw_family)
          THEN <<item_name \o suffix_bag>>
          ELSE <<>>)
         \o <<t_potato_chips>>
    ELSE <<>>

\* the variations appended for chocolate
ChocolateVariations(item_name, item_lower) ==
    IF Contains(item_lower, kw_chocolate)
    THEN (IF ~Contains(item_lower, kw_bar)
          THEN <<item_name \o suffix_bar>>
          ELSE <<>>)
         \o <<t_chocolate_bar>>
    ELSE <<>>

\* the first entry of search_terms
FirstTermBug(item_name) == Lower(item_name)

FirstTerm(item_name) == item_name

\* search_terms as built before the loop
SearchTerms(item_name) ==
    LET item_lower == Lower(item_name)
    IN  <<FirstTerm(item_name)>>
        \o DrinkVariations(item_lower)
        \o ChipVariations(item_name, item_lower)
        \o ChocolateVariations(item_name, item_lower)

\* "Try up to 3 variations"
MaxVariations == 3

(***************************************************************************)
(* Product classification and the price-range filter                       *)
(* (_filter_prices_by_product_type)                                        *)
(***************************************************************************)
BeverageKeywords == {kw_coke, kw_coca_cola, kw_cola, kw_soda, kw_drink, kw_beverage}

BeverageBulkKeywords == {kw_pack, kw_case, kw_12, kw_24, kw_family, kw_bulk}

ConfectionMultiKeywords == {kw_pack, kw_case, kw_multi}

\* the branch of the if/elif chain that item_lower selects
ProductCategory(item_lower) ==
    IF ContainsAny(item_lower, BeverageKeywords)
    THEN (IF ~ContainsAny(item_lower, BeverageBulkKeywords)
          THEN "beverage_single" ELSE "beverage_bulk")
    ELSE IF Contains(item_lower, kw_chip)
    THEN (IF Contains(item_lower, kw_family) \/ Contains(item_lower, kw_large)
          THEN "snack_family" ELSE "snack_regular")
    ELSE IF Contains(item_lower, kw_chocolate)
    THEN (IF ~ContainsAny(item_lower, ConfectionMultiKeywords)
          THEN "confection_single" ELSE "confection_multi")
    ELSE "generic"

FilteredCategories == {"beverage_single", "snack_regular", "snack_family", "confection_single"}

\* the price range each filtering branch keeps, in cents
EnvelopeMin(cat) ==
    CASE cat = "beverage_single"   -> 50
      [] cat = "snack_regular"     -> 100
      [] cat = "snack_family"      -> 250
      [] cat = "confection_single" -> 50

EnvelopeMax(cat) ==
    CASE cat = "beverage_single"   -> 500
      [] cat = "snack_regular"     -> 700
      [] cat = "snack_family"      -> 1000
      [] cat = "confection_single" -> 500

\* [p for p in prices if lo <= p <= hi]
InEnvelope(prices, cat) ==
    LET keep(p) == EnvelopeMin(cat) <= p /\ p <= EnvelopeMax(cat)
    IN  SelectSeq(prices, keep)

\* the filter without its fall-back to the unfiltered list
FilterPricesNoFallback(prices, item_name) ==
    LET cat == ProductCategory(Lower(item_name))
    IN  IF cat \in FilteredCategories THEN InEnvelope(prices, cat) ELSE prices

\* the list _filter_prices_by_product_type returns
FilterPricesByProductType(prices, item_name) ==
    LET cat == ProductCategory(Lower(item_name))
        filtered_prices ==
            IF cat \in FilteredCategories
            THEN (IF InEnvelope(prices, cat) # <<>>
                  THEN InEnvelope(prices, cat) ELSE prices)
            ELSE prices
    IN  IF filtered_prices # <<>> THEN filtered_prices ELSE prices

\* TRUE when the returned list is the argument object itself (no
\* comprehension result was kept), FALSE when it is a new list
FilterReturnsArgument(prices, item_name) ==
    LET cat == ProductCategory(Lower(item_name))
    IN  ~(cat \in FilteredCategories /\ InEnvelope(prices, cat) # <<>>)

(***************************************************************************)
(* Price extraction (_extract_prices_from_soup)                            *)
(*                                                                         *)
(* A page is what the three layers find in it:                             *)
(*   sel  : for each selector with hits, its elements in document order,   *)
(*          each element the numbers the price regex matches in its text;  *)
(*   ld   : the JSON-LD scripts, each with the shape of its data;          *)
(*   text : the numbers the "$d.dd" pattern matches in the whole text.     *)
(***************************************************************************)
\* "Limit to first 15 results"
SelectorLimit == 15

\* "Limit matches"
TextLimit == 20

PlausibleMin == 50

PlausibleMax == 20000

\* the bound with its ends admitted
PlausibleInclusive(price) == PlausibleMin <= price /\ price <= PlausibleMax

\* if 0.50 < price < 200
Plausible(price) == PlausibleMin < price /\ price < PlausibleMax

RECURSIVE Concat(_)
\* the concatenation of a sequence of sequences
Concat(ss) == IF ss = <<>> THEN <<>> ELSE Head(ss) \o Concat(Tail(ss))

\* layer 1: the selector loop
SelectorPrices(page) ==
    Concat([i \in 1..Len(page.sel) |->
              SelectSeq(Concat(Take(page.sel[i], SelectorLimit)), Plausible)])

\* layer 2: JSON-LD; a script whose data cannot be read is skipped
JsonLdPrices(page) ==
    Concat([i \in 1..Len(page.ld) |->
              IF page.ld[i].shape \in {"offers", "price"} /\ Plausible(page.ld[i].price)
              THEN <<page.ld[i].price>>
              ELSE <<>>])

\* layer 3: the pattern over all text
TextPrices(page) == SelectSeq(Take(page.text, TextLimit), Plausible)

ExtractPricesFromSoup(page) ==
    SelectorPrices(page) \o JsonLdPrices(page) \o TextPrices(page)

\* every number a page shows to any layer, admitted or not
RECURSIVE SeqRange(_)
SeqRange(s) == IF s = <<>> THEN {} ELSE {Head(s)} \cup SeqRange(Tail(s))

PageNumbers(page) ==
    SeqRange(Concat(Concat(page.sel)))
    \cup {page.ld[i].price : i \in {j \in 1..Len(page.ld) : page.ld[j].shape # "invalid"}}
    \cup SeqRange(page.text)

\* Pages used as inputs
PageNone ==
    [sel  |-> << << <<0>>, <<>> >> >>,
     ld   |-> << [shape |-> "invalid", price |-> 0] >>,
     text |-> << 20000 >>]

PageA ==
    [sel  |-> << << <<50, 189>>, <<20000>> >> >>,
     ld   |-> << [shape |-> "offers", price |-> 195], [shape |-> "offers", price |-> 50] >>,
     text |-> << 20000, 199, 25000 >>]

PageB ==
    [sel  |-> << >>,
     ld   |-> << [shape |-> "price", price |-> 20000] >>,
     text |-> << 205, 210, 50, 1050 >>]

PageC ==
    [sel  |-> << << <<100>>, <<250, 500>> >>, << <<700>> >> >>,
     ld   |-> << [shape |-> "price", price |-> 1000], [shape |-> "invalid", price |-> 300] >>,
     text |-> << >>]

Pages == {PageNone, PageA, PageB, PageC}

(***************************************************************************)
(* Source fetchers                                                         *)
(*                                                                         *)
(* A browser fetch (driver.get + page_source) either raises or renders a   *)
(* page; a requests fetch either raises or gives a response with a status  *)
(* and a body.  Parsing the body can raise too ("parse_error").            *)
(***************************************************************************)
FetchErrors == {"network_error", "timeout", "parse_error"}

DriverOutcomes ==
    [kind : FetchErrors] \cup [kind : {"page"}, page : Pages]

RequestOutcomes ==
    [kind : FetchErrors]
    \cup [kind : {"response"}, status : {200}, page : Pages]
    \cup [kind : {"response"}, status : {404}, page : {PageA}]

\* a fetch the code did not make
NotFetched == [kind |-> "not_fetched"]

\* the browser block: skipped without a driver, empty when it raises
ViaDriver(driver, d) ==
    IF driver /\ d.kind = "page" THEN ExtractPricesFromSoup(d.page) ELSE <<>>

\* the requests block without the status test
ViaRequestsAnyStatus(r) ==
    IF r.kind = "response" THEN ExtractPricesFromSoup(r.page) ELSE <<>>

\* the requests block: empty when it raises or the status is not 200
ViaRequests(r) ==
    IF r.kind = "response" /\ r.status = 200 THEN ExtractPricesFromSoup(r.page) ELSE <<>>

\* what a fetcher hands to its caller: a list, or an exception
Returns(prices) == [raised |-> FALSE, prices |-> prices]

Raises == [raised |-> TRUE, prices |-> <<>>]

\* browser first, requests only "if not prices"
BrowserThenRequests(driver, d, r) ==
    LET prices == ViaDriver(driver, d)
    IN  Returns(IF prices = <<>> THEN prices \o ViaRequests(r) ELSE prices)

ScrapeWalmart(driver, d, r) == BrowserThenRequests(driver, d, r)

ScrapeTarget(driver, d, r) == BrowserThenRequests(driver, d, r)

ScrapeInstacart(driver, d, r) == Returns(ViaDriver(driver, d))

ScrapePublixApi(driver, d, r) == BrowserThenRequests(driver, d, r)

\* the fallback without its try/except
ScrapeGoogleShoppingUncaught(driver, d, r) ==
    IF driver
    THEN (IF d.kind = "page" THEN Returns(ExtractPricesFromSoup(d.page)) ELSE Raises)
    ELSE (IF r.kind = "response" THEN Returns(ExtractPricesFromSoup(r.page)) ELSE Raises)

\* one fetch, by the browser if there is one, else by requests (any status)
ScrapeGoogleShopping(driver, d, r) ==
    IF driver
    THEN Returns(IF d.kind = "page" THEN ExtractPricesFromSoup(d.page) ELSE <<>>)
    ELSE Returns(IF r.kind = "response" THEN ExtractPricesFromSoup(r.page) ELSE <<>>)

\* the sources list with its first two entries exchanged
SourcesSwapped == <<"Target", "Walmart", "Instacart", "Publix">>

\* the sources list of the loop, in order
Sources == <<"Walmart", "Target", "Instacart", "Publix">>

Scrape(source, driver, d, r) ==
    CASE source = "Walmart"   -> ScrapeWalmart(driver, d, r)
      [] source = "Target"    -> ScrapeTarget(driver, d, r)
      [] source = "Instacart" -> ScrapeInstacart(driver, d, r)
      [] source = "Publix"    -> ScrapePublixApi(driver, d, r)

\* the fetches a loop source performs, and whether each one failed
DriverFetchFailed(d) == d.kind # "page"

RequestFetchFailed(r) == ~(r.kind = "response" /\ r.status = 200)

UsesRequests(source, driver, d) ==
    source # "Instacart" /\ ViaDriver(driver, d) = <<>>

\* the browser fetch of a source, made only with a driver
DriverFetches(driver) == IF driver THEN DriverOutcomes ELSE {NotFetched}

\* the requests fetch of a loop source, made only "if not prices"
RequestFetches(source, driver, d) ==
    IF UsesRequests(source, driver, d) THEN RequestOutcomes ELSE {NotFetched}

\* the single fetch of the fallback: by the browser if there is one
FallbackRequestFetches(driver) == IF driver THEN {NotFetched} ELSE RequestOutcomes

\* the source as a whole failed: it fetched, and every fetch it made failed
SourceFailed(source, driver, d, r) ==
    /\ driver \/ UsesRequests(source, driver, d)
    /\ driver => DriverFetchFailed(d)
    /\ UsesRequests(source, driver, d) => RequestFetchFailed(r)

(***************************************************************************)
(* Aggregation (the tail of fetch_price_data)                              *)
(***************************************************************************)
RECURSIVE Insert(_, _)
\* x put in its place in the ascending sequence s
Insert(x, s) ==
    IF s = <<>> THEN <<x>>
    ELSE IF x <= Head(s) THEN <<x>> \o s
    ELSE <<Head(s)>> \o Insert(x, Tail(s))

RECURSIVE Sort(_)
\* list.sort()
Sort(s) == IF s = <<>> THEN <<>> ELSE Insert(Head(s), Sort(Tail(s)))

\* Python's s[start:stop], either index possibly negative
PySlice(s, start, stop) ==
    LET n == Len(s)
        norm(i) == IF i < 0 THEN (IF n + i < 0 THEN 0 ELSE n + i)
                   ELSE (IF i > n THEN n ELSE i)
    IN  SubSeq(s, norm(start) + 1, norm(stop))

\* len(all_prices) > 4
TrimAbove == 4

\* len(all_prices) // 5
TrimDivisor == 5

\* a trim that cuts the low end only
TrimLowOnly(sorted) ==
    IF Len(sorted) > TrimAbove
    THEN LET trim == Len(sorted) \div TrimDivisor
         IN  IF trim > 0 THEN PySlice(sorted, trim, Len(sorted)) ELSE sorted
    ELSE sorted

\* "Remove top and bottom 20%"
Trim(sorted) ==
    IF Len(sorted) > TrimAbove
    THEN LET trim == Len(sorted) \div TrimDivisor
         IN  IF trim > 0 THEN PySlice(sorted, trim, 0 - trim) ELSE sorted
    ELSE sorted

RECURSIVE Sum(_)
Sum(s) == IF s = <<>> THEN 0 ELSE Head(s) + Sum(Tail(s))

\* round(sum / len, 2) in cents.  An exact half cent is rounded by the
\* binary value of the quotient, which can fall on either side.
RoundedMean(prices) ==
    LET n == Len(prices)
        q == Sum(prices) \div n
        r == Sum(prices) % n
    IN  IF 2 * r < n THEN {q}
        ELSE IF 2 * r > n THEN {q + 1}
        ELSE {q, q + 1}

\* "If we found enough prices, break early"
EarlyExitCount == 5

\* the early-exit test with the threshold off by one
EnoughPricesStrict(prices) == Len(prices) > EarlyExitCount

EnoughPrices(prices) == Len(prices) >= EarlyExitCount

(***************************************************************************)
(* Inputs                                                                  *)
(***************************************************************************)
n_Coke           == <<"C","o","k","e">>
n_coke_12_pack   == <<"c","o","k","e"," ","1","2"," ","p","a","c","k">>
n_soda           == <<"s","o","d","a">>
n_chips          == <<"c","h","i","p","s">>
n_family_chips   == <<"f","a","m","i","l","y"," ","c","h","i","p","s">>
n_chocolate      == <<"c","h","o","c","o","l","a","t","e">>
n_chocolate_chip == <<"c","h","o","c","o","l","a","t","e"," ","c","h","i","p">>
n_milk           == <<"m","i","l","k">>

ItemNames ==
    {n_Coke, n_coke_12_pack, n_soda, n_chips, n_family_chips,
     n_chocolate, n_chocolate_chip, n_milk}

Cities == {"Miami"}

\* how many times fetch_price_data is called on the scraper
MaxCalls == 2

(***************************************************************************)
(* State                                                                   *)
(***************************************************************************)
VARIABLES
    driver,        \* self.driver is set (Selenium started)
    pc,            \* where the current fetch_price_data call stands
    item_name,     \* its arguments
    city,
    search_terms,  \* its locals
    term_idx,      \* position of the for loop over search_terms[:3]
    src_idx,       \* position of the for loop over sources
    all_prices,    \* the list the name all_prices is bound to
    raw_pool,      \* the list object the retrieval stage built
    same_object,   \* all_prices is that very object
    result,        \* the value returned
    calls,         \* history: the fetcher invocations of this call, in order
    last,          \* history: the outcome of the latest fetcher invocation
    got_candidates,\* history: some fetcher of this call returned candidates
    ncalls,        \* history: calls of fetch_price_data started so far
    prev_tried,    \* history: the terms the previous call tried
    handler,       \* where the API handler of the one-thread server stands
    has_scraper,   \* thread_local.scraper is set
    request,       \* the request it is serving
    location,      \* its locals city, lat, lon
    called,        \* history: the collaborators called for this request
    response,      \* the response to the latest request
    query,         \* arguments of a get_regional_multiplier call
    multiplier,    \* a multiplier to classify
    returned,      \* what get_regional_multiplier returned
    location_type, \* the label the multiplier got
    wpc,           \* where each worker thread stands
    served,        \* requests each thread has taken
    now,           \* the clock
    wake,          \* when a sleeping thread wakes
    last_request_time, \* GeocodingService.last_request_time
    nsent,         \* history: geocoding requests sent so far
    scraper,       \* thread_local.scraper per thread; main()'s scraper
    sessions,      \* the RealTimeScraper objects built so far
    main_pc        \* where region_model.main stands

scraperVars == <<driver, pc, item_name, city, search_terms, term_idx, src_idx,
                 all_prices, raw_pool, same_object, result, calls, last,
                 got_candidates, ncalls, prev_tried>>

apiVars == <<handler, has_scraper, request, location, called, response>>

referenceVars == <<query, multiplier, returned, location_type>>

workerVars == <<wpc, served, now, wake, last_request_time, nsent, scraper,
                sessions, main_pc>>

vars == <<scraperVars, apiVars, referenceVars, workerVars>>

\* what a step of fetch_price_data leaves alone
others == <<apiVars, referenceVars, workerVars>>

None == [kind |-> "None", value |-> 0]

Number(v) == [kind |-> "number", value |-> v]

NoAttempt == [source |-> "none", failed |-> FALSE, prices |-> <<>>, slept |-> FALSE]

NoCity == "-"

\* the terms for which the loop body ran, from the invocation history
TermsTried(cs) ==
    LET first == SelectSeq(cs, LAMBDA c : c.source = Sources[1])
    IN  [i \in 1..Len(first) |-> first[i].term]

(***************************************************************************)
(* The reference model (src/region_model.py)                               *)
(*                                                                         *)
(* Coordinates are integers in units of 1/10000 degree (25.7617 is         *)
(* 257617) and cost indices integers in units of 1/10000 (1.15 is 11500).  *)
(* City names are sequences of one-character strings.                      *)
(***************************************************************************)
h_miami == <<"m","i","a","m","i">>
h_orlando == <<"o","r","l","a","n","d","o">>
h_tampa == <<"t","a","m","p","a">>
h_jacksonville == <<"j","a","c","k","s","o","n","v","i","l","l","e">>
h_tallahassee == <<"t","a","l","l","a","h","a","s","s","e","e">>
h_key_west == <<"k","e","y"," ","w","e","s","t">>

o_naples == <<"n","a","p","l","e","s">>
o_sarasota == <<"s","a","r","a","s","o","t","a">>
o_gainesville == <<"g","a","i","n","e","s","v","i","l","l","e">>
o_pensacola == <<"p","e","n","s","a","c","o","l","a">>
o_clearwater == <<"c","l","e","a","r","w","a","t","e","r">>
o_fort_lauderdale == <<"f","o","r","t"," ","l","a","u","d","e","r","d","a","l","e">>

\* self.hubs, in the order the dict is written and iterated
hubs ==
    <<[name |-> h_miami, lat |-> 257617, lon |-> -801918, index |-> 11500],
      [name |-> h_orlando, lat |-> 285383, lon |-> -813792, index |-> 10200],
      [name |-> h_tampa, lat |-> 279506, lon |-> -824572, index |-> 10300],
      [name |-> h_jacksonville, lat |-> 303322, lon |-> -816557, index |-> 9500],
      [name |-> h_tallahassee, lat |-> 304383, lon |-> -842807, index |-> 9300],
      [name |-> h_key_west, lat |-> 245551, lon |-> -817800, index |-> 12500]>>

known_others ==
    <<[name |-> o_naples, lat |-> 261420, lon |-> -817948],
      [name |-> o_sarasota, lat |-> 273364, lon |-> -825307],
      [name |-> o_gainesville, lat |-> 296516, lon |-> -823248],
      [name |-> o_pensacola, lat |-> 304213, lon |-> -872169],
      [name |-> o_clearwater, lat |-> 279659, lon |-> -828001],
      [name |-> o_fort_lauderdale, lat |-> 261224, lon |-> -801373]>>

\* self.florida_center, the coordinates of an unknown city
florida_center == [lat |-> 285383, lon |-> -813792]

\* str.strip()
RECURSIVE StripLeft(_)
StripLeft(s) == IF s # <<>> /\ s[1] = " " THEN StripLeft(Tail(s)) ELSE s

RECURSIVE StripRight(_)
StripRight(s) ==
    IF s # <<>> /\ s[Len(s)] = " " THEN StripRight(SubSeq(s, 1, Len(s) - 1)) ELSE s

Strip(s) == StripRight(StripLeft(s))

\* the entries of a name-keyed dict under one key
Entries(table, name) == SelectSeq(table, LAMBDA e : e.name = name)

\* get_coordinates: a hub, else a known city, else the centre of Florida
GetCoordinates(city_name) ==
    LET name == Strip(Lower(city_name))
        hub == Entries(hubs, name)
        other == Entries(known_others, name)
    IN  IF hub # <<>> THEN [lat |-> hub[1].lat, lon |-> hub[1].lon]
        ELSE IF other # <<>> THEN [lat |-> other[1].lat, lon |-> other[1].lon]
        ELSE florida_center

Abs(x) == IF x < 0 THEN 0 - x ELSE x

\* The blend is computed in fixed point.  Distances are taken in units of
\* CoarseUnit/10000 degree, a weight 1 / dist ** 2 is WeightScale \div the
\* squared distance, and the indices are averaged as offsets from IndexBase
\* so the sums stay within 32 bits; the weighted mean is the same.  The
\* test `dist == 0` is exact: the square root is zero only when both
\* differences are.
CoarseUnit == 10

WeightScale == 1000000000

IndexBase == 9300

DistIsZero(lat, lon, hub) == lat = hub.lat /\ lon = hub.lon

DistSquared(lat, lon, hub) ==
    LET dlat == Abs(lat - hub.lat) \div CoarseUnit
        dlon == Abs(lon - hub.lon) \div CoarseUnit
    IN  dlat * dlat + dlon * dlon

ZeroDivisionError == [kind |-> "ZeroDivisionError", value |-> 0]

\* the loop without `if dist == 0: return data["index"]`
RECURSIVE BlendUnguarded(_, _, _, _, _)
BlendUnguarded(i, lat, lon, weighted_index, total_weight) ==
    IF i > Len(hubs)
    THEN Number(IndexBase + (weighted_index \div total_weight))
    ELSE IF DistIsZero(lat, lon, hubs[i])
    THEN ZeroDivisionError
    ELSE LET weight == WeightScale \div DistSquared(lat, lon, hubs[i])
         IN  BlendUnguarded(i + 1, lat, lon,
                            weighted_index + (hubs[i].index - IndexBase) * weight,
                            total_weight + weight)

\* `for hub, data in self.hubs.items()` from hub i on, and the final division
RECURSIVE Blend(_, _, _, _, _)
Blend(i, lat, lon, weighted_index, total_weight) ==
    IF i > Len(hubs)
    THEN Number(IndexBase + (weighted_index \div total_weight))
    ELSE IF DistIsZero(lat, lon, hubs[i])
    THEN Number(hubs[i].index)
    ELSE LET weight == WeightScale \div DistSquared(lat, lon, hubs[i])
         IN  Blend(i + 1, lat, lon,
                   weighted_index + (hubs[i].index - IndexBase) * weight,
                   total_weight + weight)

\* get_regional_multiplier(city, latitude, longitude); an argument left out
\* is None
GetRegionalMultiplier(city_arg, latitude, longitude) ==
    LET coords == IF latitude # None /\ longitude # None
                  THEN [lat |-> latitude.value, lon |-> longitude.value]
                  ELSE GetCoordinates(city_arg)
    IN  Blend(1, coords.lat, coords.lon, 0, 0)

\* the thresholds of the location type, 1.05 and 0.98
HighAbove == 10500

LowBelow == 9800

\* the classification with the boundary values counted in
LocationTypeInclusive(m) ==
    IF m >= HighAbove THEN "HIGH"
    ELSE IF m <= LowBelow THEN "LOW"
    ELSE "MEDIUM"

\* `if multiplier > 1.05 ... elif multiplier < 0.98 ... else`
LocationType(m) ==
    IF m > HighAbove THEN "HIGH"
    ELSE IF m < LowBelow THEN "LOW"
    ELSE "MEDIUM"


(***************************************************************************)
(* Inputs of the reference model                                           *)
(***************************************************************************)
c_Miami == <<"M","i","a","m","i">>

c_Tampa_spaced == <<" ","T","a","m","p","a"," ">>

c_KEY_WEST == <<"K","E","Y"," ","W","E","S","T">>

c_Ocala == <<"O","c","a","l","a">>

QueryCities ==
    {hubs[i].name : i \in 1..Len(hubs)}
      \cup {known_others[i].name : i \in 1..Len(known_others)}
      \cup {c_Miami, c_Tampa_spaced, c_KEY_WEST, c_Ocala}

\* every point is a hub or lies more than CoarseUnit/10000 degree from
\* every hub
QueryPoints ==
    {[lat |-> hubs[i].lat, lon |-> hubs[i].lon] : i \in 1..Len(hubs)}
      \cup {[lat |-> known_others[i].lat, lon |-> known_others[i].lon] :
               i \in 1..Len(known_others)}
      \cup {[lat |-> 240000, lon |-> -870000],
            [lat |-> 310000, lon |-> -800000],
            [lat |-> 257617, lon |-> -813792]}

NoQuery == [city |-> <<>>, latitude |-> None, longitude |-> None]

Queries ==
    {[city |-> c, latitude |-> None, longitude |-> None] : c \in QueryCities}
      \cup {[city |-> c, latitude |-> Number(p.lat), longitude |-> Number(p.lon)] :
               c \in {<<>>, h_orlando}, p \in QueryPoints}

\* multipliers around the two thresholds, the hub indices and 1.10, 0.97, 1.00
Multipliers ==
    (9790..9810) \cup (10490..10510)
      \cup {hubs[i].index : i \in 1..Len(hubs)} \cup {11000, 9700, 10000}

(***************************************************************************)
(* The API handlers check_price and vendor_pricing (src/api.py)            *)
(*                                                                         *)
(* A coordinate parameter is what the handler reads from the request: it   *)
(* is missing, a JSON number, a string float() parses, or a non-empty      *)
(* string float() rejects.                                                 *)
(***************************************************************************)
Missing == [form |-> "missing", value |-> 0]

JsonNumber(v) == [form |-> "number", value |-> v]

Text(v) == [form |-> "text", value |-> v]

Garbage == [form |-> "garbage", value |-> 0]

\* the truth value Python gives the parameter in `if latitude and longitude`:
\* None is false, the number 0 is false, a non-empty string is true
Truthy(x) ==
    CASE x.form = "missing" -> FALSE
      [] x.form = "number"  -> x.value # 0
      [] x.form = "text"    -> TRUE
      [] x.form = "garbage" -> TRUE

\* float(x) returns (does not raise ValueError)
Parses(x) == x.form \in {"number", "text"}

\* the Florida bounds of the handlers, 24..31 north and -87..-80 east
LatMin == 240000

LatMax == 310000

LonMin == -870000

LonMax == -800000

\* (24 <= lat <= 31) and (-87 <= lon <= -80)
InFlorida(lat_f, lon_f) ==
    /\ LatMin <= lat_f /\ lat_f <= LatMax
    /\ LonMin <= lon_f /\ lon_f <= LonMax

\* what the geocoding service can answer to one reverse lookup
GeoAnswers ==
    {"exception", "status_not_200", "no_address", "not_florida",
     "florida", "florida_no_city"}

\* the dict reverse_geocode returns, reduced to what the handlers read:
\* .get('success') (absent in the not-in-Florida dict, so false) and
\* .get('city')
ReverseGeocode(answer) ==
    CASE answer = "florida"         -> [success |-> TRUE, city |-> c_Miami]
      [] answer = "florida_no_city" -> [success |-> TRUE, city |-> <<>>]
      [] OTHER                      -> [success |-> FALSE, city |-> <<>>]

NoResponse == [status |-> 0]

\* jsonify({"error": ...}), 400: the body has no "success" key
BadRequest(error) == [status |-> 400, error |-> error]

\* jsonify({"success": False, ...}), 404
NotFound == [status |-> 404, success |-> FALSE]

\* the handler's outer `except Exception`
ServerError == [status |-> 500, success |-> FALSE]

\* round(x, 2) of price * percent / 100, either way on an exact half cent
Recommended(price, percent) ==
    LET q == (price * percent) \div 100
        r == (price * percent) % 100
    IN  IF 2 * r < 100 THEN {q}
        ELSE IF 2 * r > 100 THEN {q + 1}
        ELSE {q, q + 1}

\* round(multiplier, 3), either way on an exact half
RoundThree(m) ==
    IF m % 10 = 5 THEN {m - 5, m + 5} ELSE {((m + 5) \div 10) * 10}

\* the test that lets a None price through to the multiplier
LivePriceNeverNone(live_price) == FALSE

\* `if live_price is None` / `if market_price is None`
LivePriceIsNone(live_price) == live_price = None

Endpoints == {"check", "vendor"}

NoRequest ==
    [endpoint |-> "none", product |-> <<>>, city |-> <<>>,
     latitude |-> Missing, longitude |-> Missing]

NoLocation == [city |-> <<>>, lat |-> None, lon |-> None]

\* latitude and longitude as sent: none, Miami, (40.0, -74.0), the JSON
\* numbers (0, -74.0), a corner of the bounds, just north of them, an
\* unparseable latitude, a latitude alone
CoordinatePairs ==
    {<<Missing, Missing>>,
     <<Text(257617), Text(-801918)>>,
     <<Text(400000), Text(-740000)>>,
     <<JsonNumber(0), JsonNumber(-740000)>>,
     <<Text(240000), Text(-870000)>>,
     <<Text(310001), Text(-800000)>>,
     <<Garbage, Text(-801918)>>,
     <<Text(257617), Missing>>}

Requests ==
    {[endpoint |-> e, product |-> p, city |-> c,
      latitude |-> ll[1], longitude |-> ll[2]] :
        e \in Endpoints, p \in {<<>>, n_milk}, c \in {<<>>, c_Miami},
        ll \in CoordinatePairs}
      \cup {[endpoint |-> "check", product |-> n_Coke, city |-> c_Miami,
             latitude |-> Missing, longitude |-> Missing]}

\* the handler from its entry to its first call of a collaborator: where
\* it goes next, with the response if it returns and its locals if not
Validate(req) ==
    IF req.product = <<>>
    THEN [next |-> "idle", response |-> BadRequest("missing_product"),
          location |-> NoLocation]
    ELSE IF Truthy(req.latitude) /\ Truthy(req.longitude)
    THEN IF ~Parses(req.latitude) \/ ~Parses(req.longitude)
         THEN [next |-> "idle", response |-> BadRequest("invalid_coordinate_format"),
               location |-> NoLocation]
         ELSE IF ~InFlorida(req.latitude.value, req.longitude.value)
         THEN [next |-> "idle", response |-> BadRequest("outside_florida"),
               location |-> NoLocation]
         ELSE [next |-> "geocode", response |-> NoResponse,
               location |-> [city |-> req.city,
                             lat |-> Number(req.latitude.value),
                             lon |-> Number(req.longitude.value)]]
    ELSE IF req.city = <<>>
    THEN [next |-> "idle", response |-> BadRequest("missing_location"),
          location |-> NoLocation]
    ELSE [next |-> "scraper", response |-> NoResponse,
          location |-> [city |-> req.city, lat |-> None, lon |-> None]]

(***************************************************************************)
(* The worker threads of the API server (src/api.py, src/geocoding.py)     *)
(*                                                                         *)
(* The threads share the module-level GeocodingService and each has its    *)
(* own slot in thread_local.  A thread serves one request at a time; of a  *)
(* request only the steps on shared state are followed: the rate limiter   *)
(* of reverse_geocode, get_scraper, and the use of the scraper.  The       *)
(* command-line program of region_model.main runs beside them with its     *)
(* own scraper.  Time is counted in ticks of half a second.                *)
(***************************************************************************)
Workers == {"w1", "w2"}

Main == "main"

\* requests a thread serves
MaxRequests == 2

\* the last tick of the clock
MaxTime == 4

\* self.min_request_interval = 1.0, in ticks
min_request_interval == 2

\* time.time() when the server starts: last_request_time = 0 lies at
\* least one interval back
StartTime == 2

\* one key for every thread: a module-level global in place of the
\* thread-local slot
SharedKey(w) == "w1"

\* the slot of thread w in thread_local
ThreadLocalKey(w) == w

NoSession == 0

\* RealTimeScraper(...): a new session, owned by the one who built it
NewSession(owner) == [creator |-> owner, users |-> {}, uses |-> 0, closed |-> FALSE]

(***************************************************************************)
(* Initial states                                                          *)
(***************************************************************************)
\* no call of fetch_price_data is running
ScraperIdle ==
    /\ pc = "idle"
    /\ item_name = <<>>
    /\ city = NoCity
    /\ search_terms = <<>>
    /\ term_idx = 0
    /\ src_idx = 0
    /\ all_prices = <<>>
    /\ raw_pool = <<>>
    /\ same_object = TRUE
    /\ result = None
    /\ calls = <<>>
    /\ last = NoAttempt
    /\ got_candidates = FALSE
    /\ ncalls = 0
    /\ prev_tried = <<>>

\* no API server
ApiOff ==
    /\ handler = "none"
    /\ has_scraper = FALSE
    /\ request = NoRequest
    /\ location = NoLocation
    /\ called = {}
    /\ response = NoResponse

\* no reference-model query
ReferenceOff ==
    /\ query = NoQuery
    /\ multiplier = 0
    /\ returned = None
    /\ location_type = "none"

\* no worker threads
WorkersOff ==
    /\ wpc = [w \in Workers |-> "off"]
    /\ served = [w \in Workers |-> 0]
    /\ now = 0
    /\ wake = [w \in Workers |-> 0]
    /\ last_request_time = 0
    /\ nsent = 0
    /\ scraper = [w \in Workers \cup {Main} |-> NoSession]
    /\ sessions = <<>>
    /\ main_pc = "off"

\* RealTimeScraper.__init__: the driver exists unless Selenium is missing
\* or its start failed
Init ==
    /\ driver \in BOOLEAN
    /\ ScraperIdle
    /\ ApiOff
    /\ ReferenceOff
    /\ WorkersOff

(***************************************************************************)
(* fetch_price_data, one step per fetcher invocation and per stage         *)
(***************************************************************************)
\* entry: all_prices = [], search_terms built, the loop entered
Enter(item, c) ==
    /\ item_name' = item
    /\ city' = c
    /\ search_terms' = SearchTerms(item)
    /\ prev_tried' = TermsTried(calls)
    /\ ncalls' = ncalls + 1
    /\ all_prices' = <<>>
    /\ raw_pool' = <<>>
    /\ same_object' = TRUE
    /\ result' = None
    /\ calls' = <<>>
    /\ last' = NoAttempt
    /\ got_candidates' = FALSE
    /\ term_idx' = 1
    /\ src_idx' = 1
    /\ pc' = "source"

\* a call of fetch_price_data on the scraper by its owner; a second call
\* repeats the query of the first
FetchPriceData ==
    /\ pc \in {"idle", "returned"}
    /\ ncalls < MaxCalls
    /\ \E item \in ItemNames, c \in Cities :
          /\ pc = "returned" => (item = item_name /\ c = city)
          /\ Enter(item, c)
    /\ UNCHANGED driver
    /\ UNCHANGED others

\* the arguments the loop passes to a source
SourceCall(source) ==
    [source |-> source,
     term |-> search_terms[term_idx],
     city |-> IF source = "Publix" THEN NoCity ELSE city]

\* an iteration that tests the threshold after every source
InvokeSourceEarlyExit ==
    /\ pc = "source"
    /\ \E d \in DriverFetches(driver) :
       \E r \in RequestFetches(Sources[src_idx], driver, d) :
          LET source == Sources[src_idx]
              ret == Scrape(source, driver, d, r)
              found == ~ret.raised /\ ret.prices # <<>>
          IN  /\ all_prices' = IF found THEN all_prices \o ret.prices ELSE all_prices
              /\ last' = [source |-> source,
                          failed |-> SourceFailed(source, driver, d, r),
                          prices |-> ret.prices,
                          slept  |-> found]
              /\ calls' = Append(calls, SourceCall(source))
              /\ got_candidates' = (got_candidates \/ ret.prices # <<>>)
    /\ raw_pool' = all_prices'
    /\ IF src_idx < Len(Sources) /\ ~EnoughPrices(all_prices')
       THEN src_idx' = src_idx + 1 /\ pc' = "source"
       ELSE src_idx' = src_idx /\ pc' = "check"
    /\ UNCHANGED <<driver, item_name, city, search_terms, term_idx, same_object,
                   result, ncalls, prev_tried>>
    /\ UNCHANGED others

\* one iteration of `for source_name, scrape_func in sources`
InvokeSource ==
    /\ pc = "source"
    /\ \E d \in DriverFetches(driver) :
       \E r \in RequestFetches(Sources[src_idx], driver, d) :
          LET source == Sources[src_idx]
              ret == Scrape(source, driver, d, r)
              found == ~ret.raised /\ ret.prices # <<>>
          IN  /\ all_prices' = IF found THEN all_prices \o ret.prices ELSE all_prices
              /\ last' = [source |-> source,
                          failed |-> SourceFailed(source, driver, d, r),
                          prices |-> ret.prices,
                          slept  |-> found]
              /\ calls' = Append(calls, SourceCall(source))
              /\ got_candidates' = (got_candidates \/ ret.prices # <<>>)
    /\ raw_pool' = all_prices'
    /\ IF src_idx < Len(Sources)
       THEN src_idx' = src_idx + 1 /\ pc' = "source"
       ELSE src_idx' = src_idx /\ pc' = "check"
    /\ UNCHANGED <<driver, item_name, city, search_terms, term_idx, same_object,
                   result, ncalls, prev_tried>>
    /\ UNCHANGED others

\* the end of an iteration of a loop over all of search_terms
EndOfTermUnsliced ==
    /\ pc = "check"
    /\ IF EnoughPrices(all_prices)
       THEN pc' = "fallback" /\ UNCHANGED <<term_idx, src_idx>>
       ELSE IF term_idx < Len(search_terms)
       THEN pc' = "source" /\ term_idx' = term_idx + 1 /\ src_idx' = 1
       ELSE pc' = "fallback" /\ UNCHANGED <<term_idx, src_idx>>
    /\ UNCHANGED <<driver, item_name, city, search_terms, all_prices, raw_pool,
                   same_object, result, calls, last, got_candidates, ncalls,
                   prev_tried>>
    /\ UNCHANGED others

\* the end of one iteration of `for search_term in search_terms[:3]`
EndOfTerm ==
    /\ pc = "check"
    /\ IF EnoughPrices(all_prices)
       THEN pc' = "fallback" /\ UNCHANGED <<term_idx, src_idx>>
       ELSE IF term_idx < Len(Take(search_terms, MaxVariations))
       THEN pc' = "source" /\ term_idx' = term_idx + 1 /\ src_idx' = 1
       ELSE pc' = "fallback" /\ UNCHANGED <<term_idx, src_idx>>
    /\ UNCHANGED <<driver, item_name, city, search_terms, all_prices, raw_pool,
                   same_object, result, calls, last, got_candidates, ncalls,
                   prev_tried>>
    /\ UNCHANGED others

\* the term the fallback searches for
FallbackTermBug == search_terms[term_idx]

FallbackTerm == item_name

\* the fallback's only fetch failed
FallbackFailed(d, r) == IF driver THEN d.kind # "page" ELSE r.kind # "response"

\* `if not all_prices: all_prices = self._scrape_google_shopping(...)`
Fallback ==
    /\ pc = "fallback"
    /\ IF all_prices = <<>>
       THEN \E d \in DriverFetches(driver), r \in FallbackRequestFetches(driver) :
               LET ret == ScrapeGoogleShopping(driver, d, r)
               IN  /\ calls' = Append(calls, [source |-> "Google",
                                              term |-> FallbackTerm,
                                              city |-> city])
                   /\ last' = [source |-> "Google",
                               failed |-> FallbackFailed(d, r),
                               prices |-> ret.prices,
                               slept  |-> FALSE]
                   /\ got_candidates' = (got_candidates \/ ret.prices # <<>>)
                   /\ IF ret.raised
                      THEN pc' = "raised" /\ UNCHANGED <<all_prices, raw_pool>>
                      ELSE /\ pc' = "process"
                           /\ all_prices' = ret.prices
                           /\ raw_pool' = ret.prices
       ELSE pc' = "process"
            /\ UNCHANGED <<all_prices, raw_pool, calls, last, got_candidates>>
    /\ UNCHANGED <<driver, item_name, city, search_terms, term_idx, src_idx,
                   same_object, result, ncalls, prev_tried>>
    /\ UNCHANGED others

\* `if all_prices:` filter by product type; otherwise `return None`
Process ==
    /\ pc = "process"
    /\ IF all_prices # <<>>
       THEN /\ all_prices' = FilterPricesByProductType(all_prices, item_name)
            /\ same_object' = FilterReturnsArgument(all_prices, item_name)
            /\ pc' = "sort"
            /\ UNCHANGED result
       ELSE /\ result' = None
            /\ pc' = "returned"
            /\ UNCHANGED <<all_prices, same_object>>
    /\ UNCHANGED <<driver, item_name, city, search_terms, term_idx, src_idx,
                   raw_pool, calls, last, got_candidates, ncalls, prev_tried>>
    /\ UNCHANGED others

\* all_prices.sort(), in place
SortPrices ==
    /\ pc = "sort"
    /\ all_prices' = Sort(all_prices)
    /\ raw_pool' = IF same_object THEN Sort(all_prices) ELSE raw_pool
    /\ pc' = "trim"
    /\ UNCHANGED <<driver, item_name, city, search_terms, term_idx, src_idx,
                   same_object, result, calls, last, got_candidates, ncalls,
                   prev_tried>>
    /\ UNCHANGED others

\* the trim with its count taken from the pool as it was gathered
TrimByRawLength ==
    /\ pc = "trim"
    /\ all_prices' = (IF Len(all_prices) > TrimAbove
                      THEN PySlice(all_prices, Len(raw_pool) \div TrimDivisor,
                                   Len(all_prices) - (Len(raw_pool) \div TrimDivisor))
                      ELSE all_prices)
    /\ same_object' = (same_object /\ ~(Len(all_prices) > TrimAbove))
    /\ pc' = "average"
    /\ UNCHANGED <<driver, item_name, city, search_terms, term_idx, src_idx,
                   raw_pool, result, calls, last, got_candidates, ncalls,
                   prev_tried>>
    /\ UNCHANGED others

\* the slice binds all_prices to a new list
TrimOutliers ==
    /\ pc = "trim"
    /\ all_prices' = Trim(all_prices)
    /\ same_object' = (same_object /\ ~(Len(all_prices) > TrimAbove))
    /\ pc' = "average"
    /\ UNCHANGED <<driver, item_name, city, search_terms, term_idx, src_idx,
                   raw_pool, result, calls, last, got_candidates, ncalls,
                   prev_tried>>
    /\ UNCHANGED others

\* avg_price = sum / len; return round(avg_price, 2)
Average ==
    /\ pc = "average"
    /\ IF all_prices = <<>>
       THEN pc' = "raised" /\ UNCHANGED result
       ELSE /\ \E v \in RoundedMean(all_prices) : result' = Number(v)
            /\ pc' = "returned"
    /\ UNCHANGED <<driver, item_name, city, search_terms, term_idx, src_idx,
                   all_prices, raw_pool, same_object, calls, last,
                   got_candidates, ncalls, prev_tried>>
    /\ UNCHANGED others

Next ==
    \/ FetchPriceData
    \/ InvokeSource
    \/ EndOfTerm
    \/ Fallback
    \/ Process
    \/ SortPrices
    \/ TrimOutliers
    \/ Average

Spec == Init /\ [][Next]_vars

(***************************************************************************)
(* The reference model and the location type as functions of their inputs  *)
(***************************************************************************)
InitReference ==
    /\ ScraperIdle
    /\ driver = FALSE
    /\ ApiOff
    /\ WorkersOff
    /\ query \in Queries
    /\ multiplier \in Multipliers
    /\ returned = None
    /\ location_type = "none"

\* ref_model.get_regional_multiplier(...) on the query
GetRegionalMultiplierCall ==
    /\ returned = None
    /\ returned' = GetRegionalMultiplier(query.city, query.latitude, query.longitude)
    /\ UNCHANGED <<query, multiplier, location_type>>
    /\ UNCHANGED <<scraperVars, apiVars, workerVars>>

\* the if / elif / else on the multiplier
Classify ==
    /\ location_type = "none"
    /\ location_type' = LocationType(multiplier)
    /\ UNCHANGED <<query, multiplier, returned>>
    /\ UNCHANGED <<scraperVars, apiVars, workerVars>>

NextReference ==
    \/ GetRegionalMultiplierCall
    \/ Classify

SpecReference == InitReference /\ [][NextReference]_vars

(***************************************************************************)
(* One worker thread serving price requests, one after the other.  The     *)
(* scraper of the thread runs fetch_price_data step by step as above.      *)
(* Time is not followed here: the rate limiter inside reverse_geocode is   *)
(* followed step by step in the specification of the worker threads.       *)
(***************************************************************************)
InitApi ==
    /\ ScraperIdle
    /\ driver = FALSE
    /\ handler = "idle"
    /\ has_scraper = FALSE
    /\ request = NoRequest
    /\ location = NoLocation
    /\ called = {}
    /\ response = NoResponse
    /\ ReferenceOff
    /\ WorkersOff

\* a request arrives; the handler reads its parameters and validates them
\* up to its first call of a collaborator
ApiReceive ==
    /\ handler = "idle"
    /\ ncalls < MaxCalls
    /\ \E req \in Requests :
          /\ request' = req
          /\ handler' = Validate(req).next
          /\ response' = Validate(req).response
          /\ location' = Validate(req).location
    /\ called' = {}
    /\ UNCHANGED <<has_scraper, scraperVars, referenceVars, workerVars>>

\* geo_result = geocoding.reverse_geocode(lat, lon) and the two checks of
\* its result
ApiGeocode ==
    /\ handler = "geocode"
    /\ called' = called \cup {"reverse_geocode"}
    /\ \E answer \in GeoAnswers :
          LET geo_result == ReverseGeocode(answer)
          IN  IF ~geo_result.success
              THEN /\ response' = BadRequest("geocode_failed")
                   /\ handler' = "idle"
                   /\ UNCHANGED location
              ELSE IF geo_result.city = <<>>
              THEN /\ response' = BadRequest("no_city")
                   /\ handler' = "idle"
                   /\ UNCHANGED location
              ELSE /\ location' = [location EXCEPT !.city = geo_result.city]
                   /\ handler' = "scraper"
                   /\ UNCHANGED response
    /\ UNCHANGED <<request, has_scraper, scraperVars, referenceVars, workerVars>>

\* scraper = get_scraper(), which builds the thread's RealTimeScraper on
\* first use, and the entry into scraper.fetch_price_data(product, city)
ApiCallFetch ==
    /\ handler = "scraper"
    /\ IF has_scraper THEN UNCHANGED driver ELSE driver' \in BOOLEAN
    /\ has_scraper' = TRUE
    /\ Enter(request.product, location.city)
    /\ called' = called \cup {"fetch_price_data"}
    /\ handler' = "fetching"
    /\ UNCHANGED <<request, location, response, referenceVars, workerVars>>

\* the body of a 200 response
Success(req, loc, live_price, m, min_price, max_price, shown) ==
    [status |-> 200, success |-> TRUE,
     price |-> live_price,
     recommended_min |-> IF req.endpoint = "vendor" THEN Number(min_price) ELSE None,
     recommended_max |-> IF req.endpoint = "vendor" THEN Number(max_price) ELSE None,
     location_type |-> LocationType(m),
     multiplier |-> shown,
     coordinates |-> (loc.lat # None /\ loc.lon # None)]

\* fetch_price_data has returned: 404 when the price is None, else the
\* multiplier, the location type and the 200 response; an exception on the
\* way gives 500.  The locals of the finished call are dropped.
ApiFetchReturn ==
    /\ handler = "fetching"
    /\ pc \in {"returned", "raised"}
    /\ IF pc = "raised"
       THEN /\ response' = ServerError
            /\ UNCHANGED called
       ELSE IF LivePriceIsNone(result)
       THEN /\ response' = NotFound
            /\ UNCHANGED called
       ELSE LET m == GetRegionalMultiplier(location.city, location.lat, location.lon)
            IN  /\ called' = called \cup {"get_regional_multiplier"}
                /\ IF m.kind # "number" \/ result.kind # "number"
                   THEN response' = ServerError
                   ELSE \E min_price \in Recommended(result.value, 95),
                           max_price \in Recommended(result.value, 105),
                           shown \in RoundThree(m.value) :
                           response' = Success(request, location, result.value,
                                               m.value, min_price, max_price, shown)
    /\ handler' = "idle"
    /\ pc' = "idle"
    /\ item_name' = <<>>
    /\ city' = NoCity
    /\ search_terms' = <<>>
    /\ src_idx' = 0
    /\ all_prices' = <<>>
    /\ raw_pool' = <<>>
    /\ same_object' = TRUE
    /\ result' = None
    /\ calls' = <<>>
    /\ last' = NoAttempt
    /\ UNCHANGED <<driver, term_idx, got_candidates, ncalls, prev_tried>>
    /\ UNCHANGED <<request, location, has_scraper, referenceVars, workerVars>>

NextApi ==
    \/ ApiReceive
    \/ ApiGeocode
    \/ ApiCallFetch
    \/ InvokeSource
    \/ EndOfTerm
    \/ Fallback
    \/ Process
    \/ SortPrices
    \/ TrimOutliers
    \/ Average
    \/ ApiFetchReturn

SpecApi == InitApi /\ [][NextApi]_vars

(***************************************************************************)
(* The steps of the worker threads and of main                             *)
(***************************************************************************)
InitWorkers ==
    /\ ScraperIdle
    /\ driver = FALSE
    /\ ApiOff
    /\ ReferenceOff
    /\ wpc = [w \in Workers |-> "idle"]
    /\ served = [w \in Workers |-> 0]
    /\ now = StartTime
    /\ wake = [w \in Workers |-> 0]
    /\ last_request_time = 0
    /\ nsent = 0
    /\ scraper = [w \in Workers \cup {Main} |-> NoSession]
    /\ sessions = <<>>
    /\ main_pc = "start"

\* a request arrives at an idle thread: with coordinates inside the bounds
\* it goes to reverse_geocode, with a city to get_scraper, otherwise it is
\* answered 400 at once
WorkerReceive(w) ==
    /\ wpc[w] = "idle"
    /\ served[w] < MaxRequests
    /\ served' = [served EXCEPT ![w] = served[w] + 1]
    /\ \E next \in {"rate_limit", "get_scraper", "idle"} :
          wpc' = [wpc EXCEPT ![w] = next]
    /\ UNCHANGED <<now, wake, last_request_time, nsent, scraper, sessions, main_pc>>
    /\ UNCHANGED <<scraperVars, apiVars, referenceVars>>

\* _rate_limit: current_time = time.time(); time_since_last = current_time -
\* self.last_request_time; the sleep, if any, is entered
RateLimitRead(w) ==
    /\ wpc[w] = "rate_limit"
    /\ LET current_time == now
           time_since_last == current_time - last_request_time
       IN  IF time_since_last < min_request_interval
           THEN /\ wake' = [wake EXCEPT ![w] = now + (min_request_interval - time_since_last)]
                /\ wpc' = [wpc EXCEPT ![w] = "sleeping"]
           ELSE /\ wpc' = [wpc EXCEPT ![w] = "stamp"]
                /\ UNCHANGED wake
    /\ UNCHANGED <<served, now, last_request_time, nsent, scraper, sessions, main_pc>>
    /\ UNCHANGED <<scraperVars, apiVars, referenceVars>>

\* time.sleep(...) returns
RateLimitWake(w) ==
    /\ wpc[w] = "sleeping"
    /\ now >= wake[w]
    /\ wpc' = [wpc EXCEPT ![w] = "stamp"]
    /\ wake' = [wake EXCEPT ![w] = 0]
    /\ UNCHANGED <<served, now, last_request_time, nsent, scraper, sessions, main_pc>>
    /\ UNCHANGED <<scraperVars, apiVars, referenceVars>>

\* self.last_request_time = time.time() and the request session.get sends
\* right after it; the handler then goes on to get_scraper or answers 400
RateLimitStamp(w) ==
    /\ wpc[w] = "stamp"
    /\ last_request_time' = now
    /\ nsent' = nsent + 1
    /\ \E answer \in GeoAnswers :
          wpc' = [wpc EXCEPT ![w] =
                     IF ReverseGeocode(answer).success /\ ReverseGeocode(answer).city # <<>>
                     THEN "get_scraper" ELSE "idle"]
    /\ UNCHANGED <<served, now, wake, scraper, sessions, main_pc>>
    /\ UNCHANGED <<scraperVars, apiVars, referenceVars>>

\* get_scraper(): `if not hasattr(thread_local, 'scraper')` builds the
\* session; scraper.fetch_price_data is entered on the session returned
WorkerGetScraper(w) ==
    /\ wpc[w] = "get_scraper"
    /\ LET key == ThreadLocalKey(w)
           id == IF scraper[key] = NoSession THEN Len(sessions) + 1 ELSE scraper[key]
           all == IF scraper[key] = NoSession
                  THEN Append(sessions, NewSession(w)) ELSE sessions
       IN  /\ scraper' = [scraper EXCEPT ![key] = id]
           /\ sessions' = [all EXCEPT ![id].users = @ \cup {w},
                                      ![id].uses = @ + 1]
    /\ wpc' = [wpc EXCEPT ![w] = "fetching"]
    /\ UNCHANGED <<served, now, wake, last_request_time, nsent, main_pc>>
    /\ UNCHANGED <<scraperVars, apiVars, referenceVars>>

\* fetch_price_data returns and the response is sent
WorkerRespond(w) ==
    /\ wpc[w] = "fetching"
    /\ wpc' = [wpc EXCEPT ![w] = "idle"]
    /\ UNCHANGED <<served, now, wake, last_request_time, nsent, scraper, sessions, main_pc>>
    /\ UNCHANGED <<scraperVars, apiVars, referenceVars>>

\* the thread ends; nothing in api.py runs at that point
WorkerExit(w) ==
    /\ wpc[w] = "idle"
    /\ wpc' = [wpc EXCEPT ![w] = "exited"]
    /\ UNCHANGED <<served, now, wake, last_request_time, nsent, scraper, sessions, main_pc>>
    /\ UNCHANGED <<scraperVars, apiVars, referenceVars>>

\* main(): scraper = RealTimeScraper()
MainStart ==
    /\ main_pc = "start"
    /\ scraper' = [scraper EXCEPT ![Main] = Len(sessions) + 1]
    /\ sessions' = Append(sessions, NewSession(Main))
    /\ main_pc' = "loop"
    /\ UNCHANGED <<wpc, served, now, wake, last_request_time, nsent>>
    /\ UNCHANGED <<scraperVars, apiVars, referenceVars>>

\* main(): the first query of the menu loop, scraper.fetch_price_data(...)
MainQuery ==
    /\ main_pc = "loop"
    /\ sessions[scraper[Main]].uses = 0
    /\ sessions' = [sessions EXCEPT ![scraper[Main]].users = @ \cup {Main},
                                    ![scraper[Main]].uses = 1]
    /\ UNCHANGED <<wpc, served, now, wake, last_request_time, nsent, scraper, main_pc>>
    /\ UNCHANGED <<scraperVars, apiVars, referenceVars>>

\* main(): the loop is left and `finally: scraper.close()` runs
MainExit ==
    /\ main_pc = "loop"
    /\ sessions' = [sessions EXCEPT ![scraper[Main]].closed = TRUE]
    /\ main_pc' = "done"
    /\ UNCHANGED <<wpc, served, now, wake, last_request_time, nsent, scraper>>
    /\ UNCHANGED <<scraperVars, apiVars, referenceVars>>

\* half a second passes
Tick ==
    /\ now < MaxTime
    /\ now' = now + 1
    /\ UNCHANGED <<wpc, served, wake, last_request_time, nsent, scraper, sessions, main_pc>>
    /\ UNCHANGED <<scraperVars, apiVars, referenceVars>>

NextWorkers ==
    \/ \E w \in Workers : WorkerReceive(w)
    \/ \E w \in Workers : RateLimitRead(w)
    \/ \E w \in Workers : RateLimitWake(w)
    \/ \E w \in Workers : RateLimitStamp(w)
    \/ \E w \in Workers : WorkerGetScraper(w)
    \/ \E w \in Workers : WorkerRespond(w)
    \/ \E w \in Workers : WorkerExit(w)
    \/ MainStart
    \/ MainQuery
    \/ MainExit
    \/ Tick

SpecWorkers == InitWorkers /\ [][NextWorkers]_vars

(***************************************************************************)
(* Properties                                                              *)
(***************************************************************************)
InLoop == pc \in {"source", "check"}

Invoked == calls' # calls /\ calls' # <<>>

LatestCall == calls'[Len(calls')]

FixedOrder == <<"Walmart", "Target", "Instacart", "Publix">>

\* C1: a call returns None exactly when no fetcher invocation of the call
\* (loop sources and fallback) returned a candidate; otherwise it returns
\* a number, and it never ends in an exception instead.
C1_NoneIffNothingFound ==
    /\ pc # "raised"
    /\ pc = "returned" =>
          /\ result.kind \in {"None", "number"}
          /\ (result.kind = "None") <=> ~got_candidates
          /\ result.kind = "None" =>
                \E i \in 1..Len(calls) : calls[i].source = "Google"

\* every term and every source was tried, then the fallback, and the
\* call returned None
C1_Witness ==
    /\ pc = "returned"
    /\ result.kind = "None"
    /\ Len(calls) = 4 * MaxVariations + 1
    /\ ~got_candidates

\* C2: the fallback is invoked at most once per call, only from the point
\* after the loop, only when every term of search_terms[:3] was processed
\* and the pool is empty, with the original item name and city; what it
\* returns becomes the pool.
C2_FallbackOnceOnEmptyPool ==
    [][(Invoked /\ LatestCall.source = "Google") =>
          /\ pc = "fallback"
          /\ all_prices = <<>>
          /\ \A i \in 1..Len(calls) : calls[i].source # "Google"
          /\ Len(calls) = 4 * Len(Take(search_terms, MaxVariations))
          /\ TermsTried(calls) = Take(search_terms, MaxVariations)
          /\ LatestCall.term = item_name
          /\ LatestCall.city = city
          /\ pc' = "process"
          /\ all_prices' = last'.prices
          /\ raw_pool' = last'.prices]_vars

\* the fallback found candidates for a name that has expanded variants
C2_Witness ==
    /\ pc = "process"
    /\ calls # <<>>
    /\ calls[Len(calls)].source = "Google"
    /\ Len(search_terms) > 1
    /\ all_prices # <<>>
    /\ Len(calls) = 4 * MaxVariations + 1

\* C3: once the pool holds at least 5 candidates the loop moves to no
\* later term, the fallback is not invoked, and the call goes on to
\* filtering.
C3_EarlyExit ==
    [][/\ (InLoop /\ Len(all_prices) >= 5) =>
             /\ term_idx' = term_idx
             /\ pc' \in {"source", "check", "fallback"}
             /\ pc' = "source" => src_idx' > 1
             /\ Invoked => LatestCall.source # "Google"
       /\ (pc = "fallback" /\ Len(all_prices) >= 5) =>
             /\ pc' = "process"
             /\ calls' = calls
             /\ all_prices' = all_prices
       /\ (pc = "process" /\ Len(all_prices) >= 5) => pc' = "sort"]_vars

\* the loop stopped after its first term although more terms were left
C3_Witness ==
    /\ pc = "sort"
    /\ Len(raw_pool) >= 5
    /\ Len(TermsTried(calls)) = 1
    /\ Len(Take(search_terms, MaxVariations)) = 3
    /\ Len(calls) = 4

\* C4: invocations are term-major and source-minor in the order Walmart,
\* Target, Instacart, Publix; a fallback invocation is the last one; the
\* candidates of each invocation are appended at the end of the pool.
C4_InvocationOrder ==
    /\ \A i \in 1..Len(calls) :
          IF calls[i].source = "Google"
          THEN i = Len(calls) /\ pc \notin {"source", "check"}
          ELSE /\ calls[i].source = FixedOrder[((i - 1) % 4) + 1]
               /\ ((i - 1) \div 4) + 1 <= Len(search_terms)
               /\ calls[i].term = search_terms[((i - 1) \div 4) + 1]
    /\ InLoop => Len(calls) = 4 * (term_idx - 1) + (IF pc = "check" THEN 4 ELSE src_idx - 1)
    /\ (InLoop /\ last.source # "none") =>
          /\ Len(all_prices) >= Len(last.prices)
          /\ SubSeq(all_prices, Len(all_prices) - Len(last.prices) + 1, Len(all_prices))
                = last.prices

\* Target's candidates follow Walmart's in the pool, in the second term
C4_Witness ==
    /\ pc = "source"
    /\ term_idx = 2
    /\ src_idx = 3
    /\ last.source = "Target"
    /\ last.prices # <<>>
    /\ Len(all_prices) > Len(last.prices)
    /\ Len(calls) = 6

\* C5: a loop source whose fetches all fail (error, timeout, parse error,
\* non-200) leaves the call exactly where an empty result would: the pool
\* is kept, the loop moves to the next source or to the end of the term,
\* and no exception leaves fetch_price_data.
C5_SourceFailureContained ==
    /\ [](pc # "raised")
    /\ [][(pc = "source" /\ Invoked /\ last'.failed) =>
             /\ last'.prices = <<>>
             /\ ~last'.slept
             /\ all_prices' = all_prices
             /\ term_idx' = term_idx
             /\ IF src_idx < 4
                THEN pc' = "source" /\ src_idx' = src_idx + 1
                ELSE pc' = "check"]_vars

\* a source failed after candidates had been collected, with sources left
C5_Witness ==
    /\ pc = "source"
    /\ last.failed
    /\ last.source = "Target"
    /\ all_prices # <<>>

Category == ProductCategory(Lower(item_name))

\* C6: the filter never turns a non-empty pool into an empty one, and
\* when no candidate lies in the category's envelope it returns the pool
\* it was given.
C6_FilterNeverEmpties ==
    pc = "sort" =>
       /\ raw_pool # <<>>
       /\ all_prices # <<>>
       /\ SeqRange(all_prices) \subseteq SeqRange(raw_pool)
       /\ (Category \in FilteredCategories /\ InEnvelope(raw_pool, Category) = <<>>)
             => all_prices = raw_pool

\* a filtered category met a pool with nothing inside its envelope
C6_Witness ==
    /\ pc = "sort"
    /\ Category \in FilteredCategories
    /\ InEnvelope(raw_pool, Category) = <<>>
    /\ all_prices = raw_pool
    /\ Len(all_prices) >= 3

IsAscending(s) == \A i \in 1..(Len(s) - 1) : s[i] <= s[i + 1]

Occurrences(s, v) == Cardinality({i \in 1..Len(s) : s[i] = v})

SameElements(s, t) ==
    /\ Len(s) = Len(t)
    /\ \A v \in SeqRange(s) \cup SeqRange(t) : Occurrences(s, v) = Occurrences(t, v)

\* C7: aggregation sorts the n-element pool ascending; for n > 4 it drops
\* exactly n \div 5 elements at the low end and n \div 5 at the high end, for
\* n <= 4 it drops nothing; the value returned is the mean of the rest,
\* rounded to the cent.
C7_TrimmedMean ==
    [][/\ pc = "sort" =>
             /\ IsAscending(all_prices')
             /\ SameElements(all_prices', all_prices)
       /\ pc = "trim" =>
             LET n == Len(all_prices)
             IN  /\ IsAscending(all_prices)
                 /\ n > 4 => all_prices' = SubSeq(all_prices, (n \div 5) + 1, n - (n \div 5))
                 /\ n > 4 => Len(all_prices') = n - 2 * (n \div 5)
                 /\ n <= 4 => all_prices' = all_prices
       /\ pc = "average" =>
             LET n == Len(all_prices)
                 total == Sum(all_prices)
             IN  /\ pc' = "returned"
                 /\ result'.kind = "number"
                 /\ 2 * (result'.value * n - total) <= n
                 /\ 2 * (total - result'.value * n) <= n]_vars

\* ten unfiltered candidates were sorted and cut to the middle six
C7_Witness ==
    /\ pc = "average"
    /\ Category = "generic"
    /\ Len(raw_pool) = 10
    /\ all_prices = SubSeq(raw_pool, 3, 8)
    /\ all_prices[1] < all_prices[6]

IsPrefix(s, t) == Len(s) <= Len(t) /\ SubSeq(t, 1, Len(s)) = s

AfterLoop == pc \in {"fallback", "process", "sort", "trim", "average", "returned"}

\* C8 as stated: the terms tried number 1 to 3, start with the item name
\* as given, and two calls with the same name try the same terms in the
\* same order.
C8_SameTermsEveryCall ==
    pc = "returned" =>
       /\ Len(TermsTried(calls)) \in 1..3
       /\ TermsTried(calls)[1] = item_name
       /\ ncalls >= 2 => TermsTried(calls) = prev_tried

\* C8 amended: the terms tried number 1 to 3, start with the item name as
\* given, and are a prefix of the first three entries of the name's
\* expansion, cut short only by early exit; two calls with the same name
\* try terms that agree wherever both tried one.
C8_TermsTriedPrefix ==
    AfterLoop =>
       LET tried == TermsTried(calls)
           planned == Take(search_terms, 3)
       IN  /\ Len(tried) \in 1..3
           /\ tried[1] = item_name
           /\ IsPrefix(tried, planned)
           /\ pc = "fallback" => (tried = planned \/ Len(all_prices) >= 5)
           /\ ncalls >= 2 => (IsPrefix(tried, prev_tried) \/ IsPrefix(prev_tried, tried))

\* the same name was searched twice: one term the first time, three the
\* second
C8_Witness ==
    /\ pc = "returned"
    /\ ncalls = 2
    /\ Len(prev_tried) = 1
    /\ Len(TermsTried(calls)) = 3
    /\ item_name # Lower(item_name)

StrictlyInside(v) == 50 < v /\ v < 20000

\* C9: every candidate in the pool, whatever layer found it and whatever
\* the product, lies strictly between 0.50 and 200.00; numbers at or
\* outside the bound are dropped and raise nothing.
C9_PlausibilityBound ==
    /\ pc # "raised"
    /\ \A v \in SeqRange(all_prices) \cup SeqRange(raw_pool) \cup SeqRange(last.prices) :
          StrictlyInside(v)

\* a page showing 0.50 and 200.00 to every layer gave its three inner
\* numbers to the pool of a snack query
C9_Witness ==
    /\ pc = "source"
    /\ last.prices = <<189, 195, 199>>
    /\ {50, 20000} \subseteq SeqRange(Concat(Concat(PageA.sel)))
    /\ {50, 20000} \subseteq PageNumbers(PageA) \ SeqRange(ExtractPricesFromSoup(PageA))
    /\ Category = "snack_regular"
    /\ all_prices = last.prices

\* keyword k stands in s at the start of a word
HasKeyword(s, k) ==
    \E i \in 0..(Len(s) - Len(k)) :
       /\ SubSeq(s, i + 1, i + Len(k)) = k
       /\ i = 0 \/ s[i] = " "

\* the kind the stated priority gives a name
StatedKind(s) ==
    IF \E k \in BeverageKeywords : HasKeyword(s, k) THEN "beverage"
    ELSE IF HasKeyword(s, kw_chip) THEN "snack"
    ELSE IF HasKeyword(s, kw_chocolate) THEN "confection"
    ELSE "generic"

KindOf(cat) ==
    CASE cat \in {"beverage_single", "beverage_bulk"}     -> "beverage"
      [] cat \in {"snack_regular", "snack_family"}        -> "snack"
      [] cat \in {"confection_single", "confection_multi"} -> "confection"
      [] OTHER -> "generic"

\* C10: a name with a beverage keyword is a beverage; else a name with
\* "chip" is a snack, even with "chocolate"; else a name with "chocolate"
\* is a confection; else it is generic.
C10_KeywordPriority ==
    pc = "sort" => KindOf(Category) = StatedKind(Lower(item_name))

ScenarioAPool == <<189, 195, 199, 205, 210, 1050>>

\* the candidates the envelope of the item's category keeps out of the
\* gathered pool, or the whole pool when the category has no envelope or
\* the envelope keeps nothing
KeptByEnvelope ==
    IF Category \in FilteredCategories /\ InEnvelope(raw_pool, Category) # <<>>
    THEN InEnvelope(raw_pool, Category)
    ELSE raw_pool

\* C11: the category filter is applied before the trim, and the number of
\* values cut from each end comes from the length of the filtered pool, not
\* of the gathered pool: the value returned is the rounded mean of the
\* filtered pool, sorted, less n \div 5 values at each end when its length
\* n exceeds 4.  For "Coke" with the pool 1.89, 1.95, 1.99, 2.05, 2.10,
\* 10.50 the filter keeps five, one is cut at each end, and 2.00 is returned.
C11_FilterThenTrim ==
    (pc = "returned" /\ result.kind = "number") =>
        LET f == Sort(KeptByEnvelope)
            n == Len(f)
            k == IF n > 4 THEN n \div 5 ELSE 0
        IN  /\ result.value \in RoundedMean(SubSeq(f, k + 1, n - k))
            /\ (item_name = n_Coke /\ raw_pool = ScenarioAPool)
                  => /\ f = <<189, 195, 199, 205, 210>>
                     /\ result = Number(200)

\* "Coke" met the six-candidate pool and 2.00 came back
C11_Witness ==
    /\ pc = "returned"
    /\ item_name = n_Coke
    /\ raw_pool = ScenarioAPool
    /\ result = Number(200)

\* C19: within one search term the politeness delay occurs between every two
\* consecutive source invocations, whatever the earlier one did: returned
\* candidates, returned nothing, or failed.
C19_DelayBetweenSources ==
    [][(pc = "source" /\ pc' = "source" /\ Invoked /\ term_idx' = term_idx)
          => last'.slept]_vars

\* C20: during retrieval the gathered pool only grows, each source's
\* candidates going after the ones already there; the filtering, sorting and
\* trimming stages work on copies and leave the gathered pool's contents and
\* discovery order as they were.
C20_RawPoolUntouched ==
    [][/\ pc \in {"source", "check", "fallback"} => IsPrefix(raw_pool, raw_pool')
       /\ pc \in {"process", "sort", "trim", "average"} => raw_pool' = raw_pool]_vars

\* C12: whatever the interleaving of the requests that use the geocoding
\* client, two requests sent through the one GeocodingService are at least
\* min_request_interval apart, and no two callers are between their read and
\* their update of last_request_time at the same time.
C12_GeocodingSpacing ==
    [][/\ (nsent > 0 /\ nsent' = nsent + 1)
             => now - last_request_time >= min_request_interval
       /\ Cardinality({w \in Workers : wpc[w] \in {"sleeping", "stamp"}}) <= 1]_vars

\* both coordinates were sent as values float() turns into numbers
SuppliedCoordinates ==
    /\ request.latitude.form \in {"number", "text"}
    /\ request.longitude.form \in {"number", "text"}

OutsideBounds ==
    \/ request.latitude.value < 240000
    \/ request.latitude.value > 310000
    \/ request.longitude.value < -870000
    \/ request.longitude.value > -800000

\* C13: in both endpoints a request whose two coordinates are supplied and
\* lie outside 24..31 north or -87..-80 east is answered 400, and neither
\* reverse_geocode nor fetch_price_data is called for it.
C13_OutsideFloridaRejected ==
    (handler # "none" /\ request.product # <<>>
       /\ SuppliedCoordinates /\ OutsideBounds)
        => /\ response.status = 400
           /\ "reverse_geocode" \notin called
           /\ "fetch_price_data" \notin called

\* C14: when every source for every term and the fallback returned nothing,
\* fetch_price_data returns None; a None price is answered 404 with
\* success = false, and the multiplier is not asked for.
C14_NoneGives404 ==
    [][(handler = "fetching" /\ pc = "returned" /\ handler' = "idle")
          => /\ ~got_candidates => result = None
             /\ result = None
                   => /\ response'.status = 404
                      /\ response'.success = FALSE
                      /\ "get_regional_multiplier" \notin called']_vars

\* "Coke": three terms and the fallback found nothing, and 404 was answered
C14_Witness ==
    /\ handler = "idle"
    /\ request.product = n_Coke
    /\ term_idx = 3
    /\ ~got_candidates
    /\ response.status = 404
    /\ response.success = FALSE
    /\ called = {"fetch_price_data"}

\* C15: a multiplier m is HIGH exactly when m > 1.05, LOW exactly when
\* m < 0.98 and MEDIUM otherwise, so 1.05 and 0.98 are MEDIUM; it gets
\* exactly one of the three labels.
C15_LocationType ==
    location_type # "none" =>
        /\ location_type \in {"HIGH", "MEDIUM", "LOW"}
        /\ location_type = "HIGH" <=> multiplier > 10500
        /\ location_type = "LOW" <=> multiplier < 9800
        /\ location_type = "MEDIUM" <=> (9800 <= multiplier /\ multiplier <= 10500)
        /\ multiplier = 11000 => location_type = "HIGH"
        /\ multiplier = 9700 => location_type = "LOW"
        /\ multiplier = 10000 => location_type = "MEDIUM"

\* the boundary 1.05 was classified, as MEDIUM
C15_Witness == multiplier = 10500 /\ location_type = "MEDIUM"

\* the coordinates a query stands for
QueryCoordinates ==
    IF query.latitude # None /\ query.longitude # None
    THEN [lat |-> query.latitude.value, lon |-> query.longitude.value]
    ELSE GetCoordinates(query.city)

\* C16: asked at coordinates, or for a city name resolving to coordinates,
\* that coincide exactly with a hub, get_regional_multiplier returns that
\* hub's index unchanged: no blend with the other hubs, no division by zero.
C16_ExactHubIndex ==
    returned # None =>
        /\ \A i \in 1..Len(hubs) :
              (QueryCoordinates.lat = hubs[i].lat /\ QueryCoordinates.lon = hubs[i].lon)
                  => returned = Number(hubs[i].index)
        /\ (query.city = c_KEY_WEST /\ query.latitude = None) => returned = Number(12500)
        /\ (query.city = c_Tampa_spaced /\ query.latitude = None) => returned = Number(10300)
        /\ (query.city = c_Ocala /\ query.latitude = None) => returned = Number(10200)
        /\ (query.latitude = Number(257617) /\ query.longitude = Number(-801918))
              => returned = Number(11500)
        /\ (query.latitude = Number(257617) /\ query.longitude = Number(-813792))
              => returned.kind = "number" /\ returned.value \notin {11500, 10200}

\* asked at the coordinates of Key West, the last hub of the loop
C16_Witness ==
    /\ query.latitude = Number(245551)
    /\ query.longitude = Number(-817800)
    /\ returned = Number(12500)

\* the sessions a thread or main has built
SessionsOf(owner) == {i \in 1..Len(sessions) : sessions[i].creator = owner}

\* C17: whatever the interleaving of the requests of several worker threads,
\* a thread builds its RealTimeScraper only once it serves a request, at
\* most once, uses that one on every later request, and no thread uses a
\* scraper another one built.
C17_ScraperPerWorker ==
    /\ \A w \in Workers :
          /\ Cardinality(SessionsOf(w)) <= 1
          /\ served[w] = 0 => SessionsOf(w) = {}
          /\ wpc[w] = "fetching" => SessionsOf(w) = {scraper[w]}
    /\ \A i \in 1..Len(sessions) : sessions[i].users \subseteq {sessions[i].creator}

\* one thread is on its second fetch with the scraper it built while the
\* other thread is fetching with its own
C17_Witness ==
    /\ wpc["w1"] = "fetching"
    /\ wpc["w2"] = "fetching"
    /\ scraper["w1"] # scraper["w2"]
    /\ sessions[scraper["w1"]].uses = 2
    /\ sessions[scraper["w1"]].users = {"w1"}

\* the owner of a session has shut down
OwnerGone(owner) ==
    IF owner = Main THEN main_pc = "done" ELSE wpc[owner] = "exited"

\* C18: every session a worker has built is closed when the worker shuts
\* down: none outlives its owner unclosed.
C18_ClosedAtShutdown ==
    \A i \in 1..Len(sessions) : OwnerGone(sessions[i].creator) => sessions[i].closed

\* the category the stated priority gives a name: beverage before snack
\* before confection, each split by its size keywords
StatedCategory(s) ==
    IF StatedKind(s) = "beverage"
    THEN (IF \E k \in BeverageBulkKeywords : HasKeyword(s, k)
          THEN "beverage_bulk" ELSE "beverage_single")
    ELSE IF StatedKind(s) = "snack"
    THEN (IF HasKeyword(s, kw_family) \/ HasKeyword(s, kw_large)
          THEN "snack_family" ELSE "snack_regular")
    ELSE IF StatedKind(s) = "confection"
    THEN (IF \E k \in ConfectionMultiKeywords : HasKeyword(s, k)
          THEN "confection_multi" ELSE "confection_single")
    ELSE "generic"

\* the stated envelopes, in cents
StatedEnvelope(cat) ==
    CASE cat = "beverage_single"   -> [min |-> 50, max |-> 500]
      [] cat = "snack_regular"     -> [min |-> 100, max |-> 700]
      [] cat = "snack_family"      -> [min |-> 250, max |-> 1000]
      [] cat = "confection_single" -> [min |-> 50, max |-> 500]

\* the candidates of the gathered pool inside the stated envelope, in order
StatedKept(cat) ==
    SelectSeq(raw_pool,
              LAMBDA p : StatedEnvelope(cat).min <= p /\ p <= StatedEnvelope(cat).max)

\* C21: when some candidate lies in the envelope of the item's category,
\* the filter returns exactly the candidates p with min <= p <= max, bounds
\* included and order kept, for beverage_single 0.50-5.00, snack_regular
\* 1.00-7.00, snack_family 2.50-10.00 and confection_single 0.50-5.00; for
\* beverage_bulk, confection_multi and generic it returns the pool unchanged.
C21_EnvelopeFilter ==
    pc = "sort" =>
        LET cat == StatedCategory(Lower(item_name))
        IN  IF cat \in {"beverage_bulk", "confection_multi", "generic"}
            THEN all_prices = raw_pool
            ELSE StatedKept(cat) # <<>> => all_prices = StatedKept(cat)

\* C22: the early-exit threshold is evaluated only at the end of a search
\* term: every step inside a started term invokes the next of the four
\* sources with that term, also when the pool already holds 5 or more
\* candidates; the loop is left only after the fourth source, and only
\* there does the size of the pool decide; the pool handed to filtering
\* may therefore hold more than 5 candidates.
C22_ThresholdAtEndOfTerm ==
    [][/\ pc = "source" =>
             /\ Invoked
             /\ LatestCall.source = FixedOrder[src_idx]
             /\ LatestCall.term = search_terms[term_idx]
             /\ term_idx' = term_idx
             /\ IF src_idx < 4
                THEN pc' = "source" /\ src_idx' = src_idx + 1
                ELSE pc' = "check"
       /\ (InLoop /\ pc' \notin {"source", "check"}) =>
             /\ pc = "check"
             /\ Len(calls) = 4 * term_idx
             /\ \A j \in 1..4 :
                   /\ calls[Len(calls) - 4 + j].source = FixedOrder[j]
                   /\ calls[Len(calls) - 4 + j].term = search_terms[term_idx]
       /\ pc = "check" =>
             /\ calls' = calls
             /\ all_prices' = all_prices
             /\ Len(all_prices) >= 5 => pc' = "fallback"
             /\ (Len(all_prices) < 5 /\ term_idx < 3 /\ term_idx < Len(search_terms)) =>
                   pc' = "source" /\ term_idx' = term_idx + 1 /\ src_idx' = 1]_vars

\* the pool held 5 candidates before the last source of the term; that
\* source was invoked all the same and more than 5 went on to filtering
C22_Witness ==
    /\ pc = "process"
    /\ last.source = "Publix"
    /\ last.prices # <<>>
    /\ Len(all_prices) - Len(last.prices) >= 5
    /\ Len(all_prices) > 5
    /\ Len(calls) = 4

\* a call of fetch_price_data is under way
InCall == pc \notin {"idle", "returned"}

\* the step a call under way takes next has an outcome: each source call
\* returns, and the other steps wait for nothing
CanStep ==
    CASE pc = "source" ->
            \E d \in DriverFetches(driver) :
               RequestFetches(Sources[src_idx], driver, d) # {}
      [] pc = "fallback" ->
            \/ all_prices # <<>>
            \/ DriverFetches(driver) # {} /\ FallbackRequestFetches(driver) # {}
      [] OTHER -> pc \in {"check", "process", "sort", "trim", "average"}

\* the most steps a call can still take from where it stands: six after
\* the loop, five for each term not yet started, one for each source left
StepsLeft ==
    CASE pc = "source"   -> 6 + 5 * (3 - term_idx) + (5 - src_idx)
      [] pc = "check"    -> 6 + 5 * (3 - term_idx)
      [] pc = "fallback" -> 5
      [] pc = "process"  -> 4
      [] pc = "sort"     -> 3
      [] pc = "trim"     -> 2
      [] pc = "average"  -> 1
      [] OTHER           -> 0

\* the invocations of a call made by the loop, and by the fallback
LoopCalls == SelectSeq(calls, LAMBDA c : c.source # "Google")

FallbackCalls == SelectSeq(calls, LAMBDA c : c.source = "Google")

\* C23: provided each source call returns, every fetch_price_data call
\* terminates with a number or None after at most 3 terms x 4 sources + 1
\* fallback = 13 source invocations, and the mean is always taken over a
\* non-empty list: trimming n >= 5 elements leaves n - 2*(n // 5) >= 1.
C23_Terminates ==
    /\ [](InCall => (CanStep /\ StepsLeft \in 1..20))
    /\ [][/\ InCall => StepsLeft' < StepsLeft
          /\ pc' # "raised"
          /\ Len(LoopCalls') <= 3 * 4
          /\ Len(FallbackCalls') <= 1
          /\ Len(calls') <= 13
          /\ pc' = "returned" =>
                \/ result' = None
                \/ result'.kind = "number" /\ result'.value \in Nat
          /\ pc = "average" =>
                /\ all_prices # <<>>
                /\ pc' = "returned"
                /\ result' # None
          /\ (pc = "trim" /\ Len(all_prices) >= 5) =>
                /\ Len(all_prices') = Len(all_prices) - 2 * (Len(all_prices) \div 5)
                /\ Len(all_prices') >= 1]_vars

\* a call that made all 13 invocations and returned None
C23_Witness ==
    /\ pc = "returned"
    /\ Len(calls) = 13
    /\ result = None


====
